---- MODULE Spec2Model ----
(***************************************************************************)
(* Agent network validation, HOCON rendering and registry update.          *)
(*                                                                         *)
(* Agent names are modelled as integers (the order of the integers is the  *)
(* lexicographic order sorted() uses on the names).  A                     *)
(* Python dict is a record [keys, val]: keys is the insertion order of     *)
(* the keys and val the mapping.  An agent configuration is a function     *)
(* whose domain is the set of keys it carries, a subset of                 *)
(* {"down_chains", "instructions"}.                                        *)
(***************************************************************************)
EXTENDS Integers, Sequences, FiniteSets, TLC

VARIABLES sly_data, validation, pc, locals, ret, documents, manifest, io_log,
          validator, hocon_strs, calls

vars == <<sly_data, validation, pc, locals, ret, documents, manifest, io_log,
          validator, hocon_strs, calls>>

\* The state of one async_invoke and of the validator it runs.
invoke_vars == <<sly_data, validation, pc, locals, ret, io_log>>

\* A validator object and the strings get_agent_network_hocon returned for it.
render_vars == <<validator, hocon_strs>>

\* The files of the registries directory.
storage_vars == <<documents, manifest>>

(***************************************************************************)
(* Bounds                                                                  *)
(***************************************************************************)
MaxAgents == 3
MaxEdges == 3
MaxFieldAgents == 2
MaxFieldEdges == 1
MaxCycleAgents == 3
MaxCycleEdges == 4
MaxRenderAgents == 3
MaxRenderEdges == 3
MaxRenderCalls == 2
MaxCallers == 2
MaxRegistryCalls == 3
MaxConcurrentCalls == 2
MaxEditorAgents == 2
MaxStoredAgents == 1
MaxStoredEdges == 1

AGENT_NETWORK_DEFINITION == "agent_network_definition"
WRITE_TO_FILE == TRUE


(***************************************************************************)
(* Generic helpers: dicts, lists, sorted()                                 *)
(***************************************************************************)
Range(s) == {s[i] : i \in DOMAIN s}

EmptyDict == [keys |-> <<>>, val |-> [k \in {} |-> 0]]

\* dict.get(key, default)
Get(d, key, default) == IF key \in DOMAIN d THEN d[key] ELSE default

\* Truthiness of a list or a string: empty is falsy.
Truthy(x) == Len(x) > 0

\* list.index(x): position of the first occurrence, 0 when there is none
\* (Python raises ValueError there).
Index(s, x) ==
  IF \E i \in DOMAIN s : s[i] = x
  THEN CHOOSE i \in DOMAIN s : s[i] = x /\ \A j \in 1..(i - 1) : s[j] # x
  ELSE 0

RECURSIVE sorted_desc(_)
sorted_desc(S) ==
  IF S = {} THEN <<>>
  ELSE LET m == CHOOSE x \in S : \A y \in S : y <= x
       IN <<m>> \o sorted_desc(S \ {m})

\* sorted(S): the elements of S in ascending order.
RECURSIVE sorted(_)
sorted(S) ==
  IF S = {} THEN <<>>
  ELSE LET m == CHOOSE x \in S : \A y \in S : x <= y
       IN <<m>> \o sorted(S \ {m})

(***************************************************************************)
(* AgentNetworkValidator                                                   *)
(***************************************************************************)
NoTopAgent == [msg |-> "No top agent found in network", agents |-> <<>>]
MultipleTopAgents(names) ==
  [msg |-> "Multiple top agents found. Expected exactly one.", agents |-> names]
CyclicalDependencies(names) ==
  [msg |-> "Cyclical dependencies found in agents", agents |-> names]
UnreachableAgents(names) ==
  [msg |-> "Unreachable agents found", agents |-> names]
HasNoKey(agent_name, keyword) ==
  [msg |-> "has no key: " \o keyword, agents |-> <<agent_name>>]

\* The down_chains an agent entry carries, [] when it has none.
down_chains_of(network, agent_name) ==
  Get(Get(network.val, agent_name, [k \in {} |-> 0]), "down_chains", <<>>)

lacks_keyword_absent_only(agent, keyword) == keyword \notin DOMAIN agent

\* not agent.get(keyword)
lacks_keyword(agent, keyword) == ~Truthy(Get(agent, keyword, ""))

RECURSIVE keywords_loop(_, _, _, _)
keywords_loop(network, keyword, i, errors) ==
  IF i > Len(network.keys) THEN errors
  ELSE LET agent_name == network.keys[i]
           agent == network.val[agent_name]
       IN keywords_loop(network, keyword, i + 1,
            IF lacks_keyword(agent, keyword)
            THEN Append(errors, HasNoKey(agent_name, keyword))
            ELSE errors)

validate_network_keywords(network, keyword) ==
  keywords_loop(network, keyword, 1, <<>>)

find_all_top_agents_unlisted(network) ==
  Range(network.keys)
    \ UNION {Range(down_chains_of(network, a)) : a \in Range(network.keys)}

find_all_top_agents(network) ==
  LET has_down_chains ==
        {a \in Range(network.keys) : Truthy(down_chains_of(network, a))}
      as_down_chains ==
        UNION {Range(down_chains_of(network, a)) : a \in has_down_chains}
  IN has_down_chains \ as_down_chains

\* Whether the loop of _dfs_cycle_detection visits this child.
cycle_child_unguarded(network, child_agent) == TRUE

cycle_child_visited(network, child_agent) ==
  child_agent \in Range(network.keys)

\* Whether the agent reached is one currently being processed.
is_back_edge_any_visited(state, agent) == state[agent] # 0

is_back_edge(state, agent) == state[agent] = 1

\* The agents a back edge to `agent` adds to cyclical_agents.
cycle_agents_tail_only(path, agent) == {path[Len(path)], agent}

cycle_agents_whole_path(path, agent) == Range(path) \cup {agent}

cycle_agents(path, agent) ==
  LET cycle_start_idx == Index(path, agent)
  IN Range(SubSeq(path, cycle_start_idx, Len(path))) \cup {agent}

is_fully_processed_never(state, agent) == FALSE

\* Whether the agent reached was completed by an earlier visit.
is_fully_processed(state, agent) == state[agent] = 2

\* d is the traversal's mutable state: state (0 = unvisited, 1 = being
\* processed, 2 = fully processed), path, cyclical_agents; raised is set
\* when a lookup of the code raises (KeyError of state[agent], ValueError
\* of path.index(agent)) and the exception propagates to the caller.
\* entered and back_edges record, for the properties, the agents marked as
\* being processed and the visits that met such an agent, in order.
RECURSIVE dfs_cycle_detection(_, _, _), dfs_cycle_children(_, _, _, _)
dfs_cycle_detection(network, agent, d) ==
  IF d.raised THEN d
  ELSE IF agent \notin DOMAIN d.state THEN [d EXCEPT !.raised = TRUE]
  ELSE IF is_back_edge(d.state, agent) THEN
    IF Index(d.path, agent) = 0 THEN [d EXCEPT !.raised = TRUE]
    ELSE [d EXCEPT !.cyclical_agents = @ \cup cycle_agents(d.path, agent),
                   !.back_edges = Append(@, [agent |-> agent, path |-> d.path])]
  ELSE IF is_fully_processed(d.state, agent) THEN d
  ELSE LET entered == [d EXCEPT !.state[agent] = 1, !.path = Append(@, agent),
                                !.entered = Append(@, agent)]
           after == dfs_cycle_children(network, down_chains_of(network, agent),
                                       1, entered)
       IN IF after.raised THEN after
          ELSE [after EXCEPT !.path = SubSeq(@, 1, Len(@) - 1),
                             !.state[agent] = 2]

dfs_cycle_children(network, down_chains, j, d) ==
  IF j > Len(down_chains) \/ d.raised THEN d
  ELSE dfs_cycle_children(network, down_chains, j + 1,
         IF cycle_child_visited(network, down_chains[j])
         THEN dfs_cycle_detection(network, down_chains[j], d)
         ELSE d)

RECURSIVE find_cyclical_loop(_, _, _)
find_cyclical_loop(network, i, d) ==
  IF i > Len(network.keys) \/ d.raised THEN d
  ELSE LET agent == network.keys[i]
       IN find_cyclical_loop(network, i + 1,
            IF d.state[agent] = 0
            THEN dfs_cycle_detection(network, agent, d)
            ELSE d)

\* The traversal state when _find_cyclical_agents returns.
find_cyclical_run(network) ==
  find_cyclical_loop(network, 1,
    [state |-> [a \in Range(network.keys) |-> 0], path |-> <<>>,
     cyclical_agents |-> {}, raised |-> FALSE,
     entered |-> <<>>, back_edges |-> <<>>])

find_cyclical_agents(network) == find_cyclical_run(network).cyclical_agents

\* Whether _dfs_reachability_traversal returns at once.
reachability_skip(network, agent, visited) ==
  agent \in visited \/ agent \notin Range(network.keys)

\* visited and reachable_agents always hold the same agents; r is both, as
\* the sequence of the agents in the order they were added.
RECURSIVE dfs_reachability_traversal(_, _, _), dfs_reachability_children(_, _, _, _)
dfs_reachability_traversal(network, agent, r) ==
  IF reachability_skip(network, agent, Range(r)) THEN r
  ELSE dfs_reachability_children(network, down_chains_of(network, agent), 1,
                                 Append(r, agent))

dfs_reachability_children(network, down_chains, j, r) ==
  IF j > Len(down_chains) THEN r
  ELSE dfs_reachability_children(network, down_chains, j + 1,
         dfs_reachability_traversal(network, down_chains[j], r))

find_unreachable_agents_swapped(network, top_agent) ==
  Range(dfs_reachability_traversal(network, top_agent, <<>>)) \ Range(network.keys)

find_unreachable_agents_with_referenced(network, top_agent) ==
  (Range(network.keys)
     \cup UNION {Range(down_chains_of(network, a)) : a \in Range(network.keys)})
    \ Range(dfs_reachability_traversal(network, top_agent, <<>>))

find_unreachable_agents(network, top_agent) ==
  Range(network.keys) \ Range(dfs_reachability_traversal(network, top_agent, <<>>))

root_count_errors_off_by_one(top_agents) ==
  IF Cardinality(top_agents) = 0 THEN <<NoTopAgent>>
  ELSE IF Cardinality(top_agents) > 0
       THEN <<MultipleTopAgents(sorted(top_agents))>>
       ELSE <<>>

\* The defect validate_network_structure reports on the number of top agents.
root_count_errors(top_agents) ==
  IF Cardinality(top_agents) = 0 THEN <<NoTopAgent>>
  ELSE IF Cardinality(top_agents) > 1
       THEN <<MultipleTopAgents(sorted(top_agents))>>
       ELSE <<>>

evaluates_reachability_nonempty(top_agents) == Cardinality(top_agents) >= 1

\* Unreachable agents are looked for with exactly one top agent only.
evaluates_reachability(top_agents) == Cardinality(top_agents) = 1

\* The locals of validate_network_structure when it returns.
validate_network_structure_run(network) ==
  LET top_agents == find_all_top_agents(network)
      root_errors == root_count_errors(top_agents)
      cyclical == find_cyclical_run(network)
      cyclical_agents == cyclical.cyclical_agents
      cycle_errors ==
        IF cyclical_agents # {}
        THEN <<CyclicalDependencies(sorted(cyclical_agents))>> ELSE <<>>
      evaluated == evaluates_reachability(top_agents)
      unreachable_agents ==
        IF evaluated
        THEN find_unreachable_agents(network, CHOOSE t \in top_agents : TRUE)
        ELSE {}
      unreachable_errors ==
        IF unreachable_agents # {}
        THEN <<UnreachableAgents(sorted(unreachable_agents))>> ELSE <<>>
  IN [top_agents |-> top_agents,
      cyclical_agents |-> cyclical_agents,
      unreachable_agents |-> unreachable_agents,
      raised |-> cyclical.raised,
      cyclical |-> cyclical,
      visited |-> IF evaluated
                  THEN dfs_reachability_traversal(network,
                         CHOOSE t \in top_agents : TRUE, <<>>)
                  ELSE <<>>,
      errors |-> IF cyclical.raised THEN <<>>
                 ELSE root_errors \o cycle_errors \o unreachable_errors]

validate_network_structure(network) ==
  validate_network_structure_run(network).errors

\* get_top_agent: raised stands for the ValueError.
get_top_agent_first_of_several(network) ==
  LET top_agents == find_all_top_agents(network)
  IN IF Cardinality(top_agents) = 0
     THEN [raised |-> TRUE, value |-> 0]
     ELSE [raised |-> FALSE, value |-> CHOOSE t \in top_agents : TRUE]

get_top_agent(network) ==
  LET top_agents == find_all_top_agents(network)
  IN IF Cardinality(top_agents) # 1
     THEN [raised |-> TRUE, value |-> 0]
     ELSE [raised |-> FALSE, value |-> CHOOSE t \in top_agents : TRUE]

(***************************************************************************)
(* CreateAgentNetworkHocon.get_agent_network_hocon                         *)
(*                                                                         *)
(* The document is the record [name, blocks]: the header interpolates the  *)
(* network name once and the trailer is fixed.  A block is the template    *)
(* and its arguments; a tools string is the sequence of its pieces.        *)
(***************************************************************************)
Quoted(down_chain) == [quoted |-> down_chain]
Comma == [comma |-> TRUE]

RECURSIVE tools_loop_trailing_comma(_, _, _)
tools_loop_trailing_comma(down_chains, j, tools) ==
  IF j > Len(down_chains) THEN tools
  ELSE tools_loop_trailing_comma(down_chains, j + 1,
         tools \o <<Quoted(down_chains[j]), Comma>>)

RECURSIVE tools_loop(_, _, _)
tools_loop(down_chains, j, tools) ==
  IF j > Len(down_chains) THEN tools
  ELSE tools_loop(down_chains, j + 1,
         tools \o <<Quoted(down_chains[j])>>
               \o (IF j - 1 < Len(down_chains) - 1 THEN <<Comma>> ELSE <<>>))

tools_of(agent) ==
  IF Truthy(Get(agent, "down_chains", <<>>))
  THEN tools_loop(agent["down_chains"], 1, <<>>)
  ELSE <<>>

an_agent_leaf_as_regular(agent_name, agent, top_agent_name) ==
  IF "instructions" \notin DOMAIN agent THEN [raised |-> TRUE]
  ELSE [raised |-> FALSE,
        template |-> IF agent_name = top_agent_name THEN "TOP_AGENT_TEMPLATE"
                     ELSE "REGULAR_AGENT_TEMPLATE",
        name |-> agent_name,
        instructions |-> agent["instructions"], tools |-> tools_of(agent)]

\* agent["instructions"] raises KeyError when the key is absent.
an_agent(agent_name, agent, top_agent_name) ==
  IF "instructions" \notin DOMAIN agent THEN [raised |-> TRUE]
  ELSE IF agent_name = top_agent_name
  THEN [raised |-> FALSE, template |-> "TOP_AGENT_TEMPLATE", name |-> agent_name,
        instructions |-> agent["instructions"], tools |-> tools_of(agent)]
  ELSE IF Truthy(Get(agent, "down_chains", <<>>))
  THEN [raised |-> FALSE, template |-> "REGULAR_AGENT_TEMPLATE", name |-> agent_name,
        instructions |-> agent["instructions"], tools |-> tools_of(agent)]
  ELSE [raised |-> FALSE, template |-> "LEAF_NODE_AGENT_TEMPLATE", name |-> agent_name,
        instructions |-> agent["instructions"]]

RECURSIVE without_reversed(_, _)
without_reversed(keys, key) ==
  IF keys = <<>> THEN <<>>
  ELSE IF Head(keys) = key THEN without_reversed(Tail(keys), key)
  ELSE without_reversed(Tail(keys), key) \o <<Head(keys)>>

\* dict.pop(key): the dict without the key, the other keys in their order.
RECURSIVE without(_, _)
without(keys, key) ==
  IF keys = <<>> THEN <<>>
  ELSE IF Head(keys) = key THEN without(Tail(keys), key)
  ELSE <<Head(keys)>> \o without(Tail(keys), key)

pop(network, key) ==
  [keys |-> without(network.keys, key),
   val |-> [k \in DOMAIN network.val \ {key} |-> network.val[k]]]

\* The result carries the document (hocon), the validator's network after
\* the call (network_def.pop acts on the validator's own dict) and raised.
get_agent_network_hocon(network, agent_network_name) ==
  LET top == get_top_agent(network)
      top_agent_name == top.value
      moved == top_agent_name # network.keys[1]
      validator_network == IF moved THEN pop(network, top_agent_name) ELSE network
      network_def ==
        IF moved
        THEN [keys |-> <<top_agent_name>> \o validator_network.keys,
              val |-> network.val]
        ELSE network
      blocks == [i \in 1..Len(network_def.keys) |->
                   an_agent(network_def.keys[i], network_def.val[network_def.keys[i]],
                            top_agent_name)]
  IN IF top.raised
     THEN [raised |-> TRUE, network |-> network,
           hocon |-> [name |-> agent_network_name, blocks |-> <<>>]]
     ELSE IF \E i \in DOMAIN blocks : blocks[i].raised
     THEN [raised |-> TRUE, network |-> validator_network,
           hocon |-> [name |-> agent_network_name, blocks |-> <<>>]]
     ELSE [raised |-> FALSE, network |-> validator_network,
           hocon |-> [name |-> agent_network_name, blocks |-> blocks]]

(***************************************************************************)
(* Inputs                                                                  *)
(***************************************************************************)
\* The agents are named 1..k and their keys are inserted in ascending or in
\* descending order of the names.  The down_chains range over every list of
\* names, so every pair of a graph and an insertion order occurs up to a
\* renaming of the agents, and the descending order tells sorted() from the
\* insertion order.
KeyOrders(n) ==
  UNION {{[i \in 1..k |-> i], [i \in 1..k |-> k + 1 - i]} : k \in 0..n}

\* The lengths of the down_chains lists of n agents, at most b in total.
RECURSIVE Sum(_, _)
Sum(lens, i) == IF i = 0 THEN 0 ELSE lens[i] + Sum(lens, i - 1)

ChainLengths(n, b) == {lens \in [1..n -> 0..b] : Sum(lens, n) <= b}

\* The i-th list, of the names in flat cut at the given lengths.
Split(flat, lens) ==
  [i \in DOMAIN lens |-> SubSeq(flat, Sum(lens, i - 1) + 1, Sum(lens, i))]

\* An option is <<>> for an absent key and <<value>> for a present one.
Config(down_chains, instructions) ==
  [k \in (IF down_chains = <<>> THEN {} ELSE {"down_chains"})
         \cup (IF instructions = <<>> THEN {} ELSE {"instructions"}) |->
     IF k = "down_chains" THEN down_chains[1] ELSE instructions[1]]

Network(keys, down_chains, instructions) ==
  [keys |-> keys,
   val |-> [a \in Range(keys) |->
              Config(down_chains[Index(keys, a)], instructions[Index(keys, a)])]]

InstructionOptions == {<<>>, <<"">>, <<"text">>}

NoSlyData == [k \in {} |-> 0]

\* The agent_network_name argument: missing, empty or given.
ArgsSet == {[k \in {} |-> 0], [agent_network_name |-> ""],
            [agent_network_name |-> "net1"]}

(***************************************************************************)
(* State machine                                                           *)
(***************************************************************************)
NoValidation == [done |-> FALSE]
NoLocals == [active |-> FALSE]
NoReturn == [prefix |-> "", text |-> ""]
EmptyManifest == <<"{", "}">>
NoValidator == [network |-> EmptyDict, built |-> FALSE]
NoCalls == [p \in {} |-> 0]

InitRest ==
  /\ validation = NoValidation
  /\ pc = "idle"
  /\ locals = NoLocals
  /\ ret = NoReturn
  /\ documents = [f \in {} |-> 0]
  /\ manifest = EmptyManifest
  /\ io_log = <<>>
  /\ validator = NoValidator
  /\ hocon_strs = <<>>
  /\ calls = NoCalls

\* The networks of at most n agents and b down_chains entries in all; every
\* agent carries instructions and a down_chains list, which may name agents
\* that are not defined (0 is a name no agent is defined under).
GraphInputs(n, b) ==
  \/ sly_data = NoSlyData
  \/ \E keys \in KeyOrders(n) :
       \E lens \in ChainLengths(Len(keys), b) :
         \E flat \in [1..Sum(lens, Len(keys)) -> 0..Len(keys)] :
           sly_data = [agent_network_definition |->
             Network(keys,
                     [i \in DOMAIN keys |-> <<Split(flat, lens)[i]>>],
                     [i \in DOMAIN keys |-> <<"text">>])]

\* Field variety: down_chains and instructions may be absent or empty.
FieldInputs(n, b) ==
  \/ sly_data = NoSlyData
  \/ \E keys \in KeyOrders(n) :
       \E lens \in ChainLengths(Len(keys), b) :
         \E flat \in [1..Sum(lens, Len(keys)) -> 0..Len(keys)] :
           \E absent \in SUBSET {i \in DOMAIN keys : lens[i] = 0} :
             \E instructions \in [DOMAIN keys -> InstructionOptions] :
               sly_data = [agent_network_definition |->
                 Network(keys,
                         [i \in DOMAIN keys |->
                            IF i \in absent THEN <<>> ELSE <<Split(flat, lens)[i]>>],
                         instructions)]

Init == FieldInputs(MaxFieldAgents, MaxFieldEdges) /\ InitRest

InitValidator == GraphInputs(MaxAgents, MaxEdges) /\ InitRest

InitCycles == GraphInputs(MaxCycleAgents, MaxCycleEdges) /\ InitRest

InitMalformed ==
  /\ \/ FieldInputs(MaxFieldAgents, MaxFieldEdges)
     \/ GraphInputs(MaxAgents, MaxEdges)
  /\ InitRest

\* A caller builds AgentNetworkValidator(network) and runs both validations.
Validate ==
  /\ pc = "idle"
  /\ AGENT_NETWORK_DEFINITION \in DOMAIN sly_data
  /\ LET network == sly_data[AGENT_NETWORK_DEFINITION]
         run == validate_network_structure_run(network)
     IN validation' = [done |-> TRUE,
                       top_agents |-> run.top_agents,
                       cyclical_agents |-> run.cyclical_agents,
                       unreachable_agents |-> run.unreachable_agents,
                       raised |-> run.raised,
                       cyclical |-> run.cyclical,
                       visited |-> run.visited,
                       structure_errors |-> run.errors,
                       keyword_errors |->
                         validate_network_keywords(network, "instructions")]
  /\ pc' = "validated"
  /\ UNCHANGED <<sly_data, locals, ret, documents, manifest, io_log>>
  /\ UNCHANGED <<validator, hocon_strs, calls>>

Error(text) == [prefix |-> "Error: ", text |-> text]

error_list_structure_only(network) == validate_network_structure(network)

\* The combined defect list of async_invoke.
error_list_of(network) ==
  validate_network_structure(network)
    \o validate_network_keywords(network, "instructions")

\* CreateAgentNetworkHocon.async_invoke up to its first await.
AsyncInvoke(args) ==
  /\ pc = "idle"
  /\ LET network_def == Get(sly_data, AGENT_NETWORK_DEFINITION, EmptyDict)
         run == validate_network_structure_run(network_def)
         error_list == error_list_of(network_def)
         the_agent_network_name == Get(args, "agent_network_name", "")
         rendered == get_agent_network_hocon(network_def, the_agent_network_name)
     IN IF network_def.keys = <<>>
        THEN /\ ret' = Error("No network in sly data!")
             /\ pc' = "returned"
             /\ UNCHANGED <<sly_data, locals, io_log>>
        ELSE IF run.raised
        THEN /\ ret' = [prefix |-> "raised", text |-> "validate_network_structure"]
             /\ pc' = "returned"
             /\ UNCHANGED <<sly_data, locals, io_log>>
        ELSE IF error_list # <<>>
        THEN /\ ret' = [prefix |-> "Error: ", text |-> "error_list",
                        error_list |-> error_list]
             /\ pc' = "returned"
             /\ UNCHANGED <<sly_data, locals, io_log>>
        ELSE IF the_agent_network_name = ""
        THEN /\ ret' = Error("No agent_name provided.")
             /\ pc' = "returned"
             /\ UNCHANGED <<sly_data, locals, io_log>>
        ELSE /\ sly_data' = [k \in DOMAIN sly_data \cup {"agent_network_name"} |->
                               IF k = "agent_network_name"
                               THEN the_agent_network_name ELSE sly_data[k]]
             /\ io_log' = Append(io_log, "render")
             /\ IF rendered.raised
                THEN /\ ret' = [prefix |-> "raised", text |-> "get_agent_network_hocon"]
                     /\ pc' = "returned"
                     /\ locals' = locals
                ELSE /\ locals' = [active |-> TRUE,
                                   network_def |-> rendered.network,
                                   the_agent_network_name |-> the_agent_network_name,
                                   the_agent_network_hocon_str |-> rendered.hocon,
                                   manifest_content |-> <<>>]
                     /\ pc' = IF WRITE_TO_FILE THEN "write_document" ELSE "return"
                     /\ ret' = ret
  /\ UNCHANGED <<validation, documents, manifest>>
  /\ UNCHANGED <<validator, hocon_strs, calls>>

\* The two paths of modify_registry, without OUTPUT_PATH.
file_path_of(the_agent_network_name) == the_agent_network_name \o ".hocon"

manifest_path == "manifest.hocon"

\* The content of a file just opened for writing.
EmptyFile == [empty |-> TRUE]

\* A document string as the text a read of the file returns: the header
\* with the network name, one piece per block, the trailer "]\n}\n".
text_of(hocon_str) ==
  IF hocon_str = EmptyFile THEN <<>>
  ELSE <<"{", hocon_str.name, "[">>
         \o [i \in DOMAIN hocon_str.blocks |-> hocon_str.blocks[i].template]
         \o <<"]", "}", "\n">>

\* What the write of the document leaves in the registries directory.
documents_unwritten(docs, file_path, content) == docs

documents_written(docs, file_path, content) ==
  [f \in DOMAIN docs \cup {file_path} |-> IF f = file_path THEN content ELSE docs[f]]

\* modify_registry: write the agent network file; the file is the manifest
\* itself when the network is named "manifest".
WriteDocument ==
  /\ pc = "write_document"
  /\ LET file_path == file_path_of(locals.the_agent_network_name)
     IN IF file_path = manifest_path
        THEN /\ manifest' = text_of(locals.the_agent_network_hocon_str)
             /\ documents' = documents
        ELSE /\ documents' = documents_written(documents, file_path,
                                locals.the_agent_network_hocon_str)
             /\ manifest' = manifest
  /\ io_log' = Append(io_log, "write_document")
  /\ pc' = "read_manifest"
  /\ UNCHANGED <<sly_data, validation, locals, ret>>
  /\ UNCHANGED <<validator, hocon_strs, calls>>

\* modify_registry: read the current manifest content.
ReadManifest ==
  /\ pc = "read_manifest"
  /\ locals' = [locals EXCEPT !.manifest_content = manifest]
  /\ io_log' = Append(io_log, "read_manifest")
  /\ pc' = "update_manifest"
  /\ UNCHANGED <<sly_data, validation, ret, documents, manifest>>
  /\ UNCHANGED <<validator, hocon_strs, calls>>

\* str.rfind("}"): the last position of the closing brace, 0 when none.
rfind(content, token) ==
  IF \E i \in DOMAIN content : content[i] = token
  THEN CHOOSE i \in DOMAIN content :
         content[i] = token /\ \A j \in (i + 1)..Len(content) : content[j] # token
  ELSE 0

\* The manifest line of a network and the quoted file name it holds.
manifest_entry(the_agent_network_name) == the_agent_network_name \o ".hocon"

updated_content_entry_only(manifest_content, the_agent_network_name) ==
  <<"{", "\n", manifest_entry(the_agent_network_name), "}">>

updated_content(manifest_content, the_agent_network_name) ==
  LET insert_position == rfind(manifest_content, "}")
  IN SubSeq(manifest_content, 1, insert_position - 1)
       \o <<"\n", manifest_entry(the_agent_network_name)>>
       \o SubSeq(manifest_content, insert_position, Len(manifest_content))

\* modify_registry: insert the entry unless it is there or no brace is.
UpdateManifest ==
  /\ pc = "update_manifest"
  /\ LET manifest_content == locals.manifest_content
         name == locals.the_agent_network_name
     IN IF /\ rfind(manifest_content, "}") # 0
           /\ manifest_entry(name) \notin Range(manifest_content)
        THEN /\ manifest' = updated_content(manifest_content, name)
             /\ io_log' = Append(io_log, "write_manifest")
        ELSE UNCHANGED <<manifest, io_log>>
  /\ pc' = "return"
  /\ UNCHANGED <<sly_data, validation, locals, ret, documents>>
  /\ UNCHANGED <<validator, hocon_strs, calls>>

\* async_invoke: the success message.
Return ==
  /\ pc = "return"
  /\ ret' = [prefix |-> "The agent network HOCON file for ",
             text |-> "has been successfully created from the agent network definition: ",
             name |-> locals.the_agent_network_name,
             network_def |-> locals.network_def]
  /\ pc' = "returned"
  /\ UNCHANGED <<sly_data, validation, locals, documents, manifest, io_log>>
  /\ UNCHANGED <<validator, hocon_strs, calls>>

Next ==
  \/ Validate
  \/ \E args \in ArgsSet : AsyncInvoke(args)
  \/ WriteDocument
  \/ ReadManifest
  \/ UpdateManifest
  \/ Return

Spec == Init /\ [][Next]_vars

\* The validator alone, on the graphs of InitValidator.
\* A caller asks the validator it has run for the top agent.
GetTopAgent ==
  /\ pc = "validated"
  /\ ret' = get_top_agent(sly_data[AGENT_NETWORK_DEFINITION])
  /\ pc' = "top_agent"
  /\ UNCHANGED <<sly_data, validation, locals, documents, manifest, io_log>>
  /\ UNCHANGED <<validator, hocon_strs, calls>>

NextValidator == Validate \/ GetTopAgent

SpecValidator == InitValidator /\ [][NextValidator]_vars

\* The validator on graphs with one more down_chains entry.
NextCycles == Validate

SpecCycles == InitCycles /\ [][NextCycles]_vars

\* The validator on the networks of Init and of InitValidator together.
NextMalformed == Validate

SpecMalformed == InitMalformed /\ [][NextMalformed]_vars

(***************************************************************************)
(* get_agent_network_hocon called on a validator, once or again            *)
(***************************************************************************)
\* Graphs whose agents all carry instructions; an agent with no down_chains
\* entry has the key absent or an empty list.
RenderInputs(n, b) ==
  \/ sly_data = NoSlyData
  \/ \E keys \in KeyOrders(n) :
       \E lens \in ChainLengths(Len(keys), b) :
         \E flat \in [1..Sum(lens, Len(keys)) -> 0..Len(keys)] :
           \E absent \in SUBSET {i \in DOMAIN keys : lens[i] = 0} :
             sly_data = [agent_network_definition |->
               Network(keys,
                       [i \in DOMAIN keys |->
                          IF i \in absent THEN <<>> ELSE <<Split(flat, lens)[i]>>],
                       [i \in DOMAIN keys |-> <<"text">>])]

InitRenderer == RenderInputs(MaxRenderAgents, MaxRenderEdges) /\ InitRest

\* async_invoke builds the validator on a deep copy of the definition and
\* goes on only when the copy is non-empty and has no defect.
NewValidator ==
  /\ ~validator.built
  /\ LET network_def == Get(sly_data, AGENT_NETWORK_DEFINITION, EmptyDict)
     IN /\ network_def.keys # <<>>
        /\ ~validate_network_structure_run(network_def).raised
        /\ error_list_of(network_def) = <<>>
        /\ validator' = [network |-> network_def, built |-> TRUE]
  /\ UNCHANGED <<invoke_vars, documents, manifest, hocon_strs, calls>>

\* One call of get_agent_network_hocon(validator, agent_network_name).
GetAgentNetworkHocon(agent_network_name) ==
  /\ validator.built
  /\ Len(hocon_strs) < MaxRenderCalls
  /\ LET rendered == get_agent_network_hocon(validator.network, agent_network_name)
     IN /\ validator' = [validator EXCEPT !.network = rendered.network]
        /\ hocon_strs' = Append(hocon_strs,
                                [raised |-> rendered.raised, hocon |-> rendered.hocon])
  /\ UNCHANGED <<invoke_vars, documents, manifest, calls>>

NextRenderer ==
  \/ NewValidator
  \/ GetAgentNetworkHocon("net1")

SpecRenderer == InitRenderer /\ [][NextRenderer]_vars

(***************************************************************************)
(* modify_registry, one coroutine per caller                               *)
(*                                                                         *)
(* Each await of modify_registry is a step: opening a file for writing     *)
(* creates or truncates it, the write fills it, the read of the manifest   *)
(* and the decision taken on its content run without an await in between.  *)
(***************************************************************************)
RegistryNames == {"net1", "net2", "manifest"}

\* The manifests a call may find: without entries, with an entry of another
\* network, with text after the closing brace, with a nested object, with
\* the entry of net1 already there, and without a closing brace.
RegistryManifests ==
  {EmptyManifest,
   <<"{", "\n", "old.hocon", "}">>,
   <<"{", "\n", "old.hocon", "}", "\n">>,
   <<"{", "\n", "old.hocon", "{", "}", "}">>,
   <<"{", "\n", "net1.hocon", "}">>,
   <<"{", "\n", "old.hocon">>}

\* The strings a caller passes for a network name: the documents of a
\* network of one agent and of a network of two.
SampleBlocks ==
  <<an_agent(1, Config(<<<<2>>>>, <<"text">>), 1),
    an_agent(2, Config(<<>>, <<"text">>), 1)>>

hocon_str_of(the_agent_network_name, agents) ==
  [name |-> the_agent_network_name, blocks |-> SubSeq(SampleBlocks, 1, agents)]

RegistryDocuments(the_agent_network_name) ==
  {hocon_str_of(the_agent_network_name, agents) : agents \in 1..2}

IdleCall ==
  [pc |-> "idle", the_agent_network_name |-> "",
   the_agent_network_hocon_str |-> EmptyFile, manifest_content |-> <<>>,
   started |-> 0, completed |-> {}, manifest_at_call |-> <<>>]

InitRegistryRest ==
  /\ sly_data = NoSlyData
  /\ validation = NoValidation
  /\ pc = "idle"
  /\ locals = NoLocals
  /\ ret = NoReturn
  /\ documents = [f \in {} |-> 0]
  /\ manifest \in RegistryManifests
  /\ io_log = <<>>
  /\ validator = NoValidator
  /\ hocon_strs = <<>>

\* Callers whose calls may interleave at every await.
InitRegistry ==
  /\ calls = [p \in 1..MaxCallers |-> IdleCall]
  /\ InitRegistryRest

\* One caller: each call ends before the next one starts.
InitRegistrySequential ==
  /\ calls = [p \in {1} |-> IdleCall]
  /\ InitRegistryRest

RECURSIVE StartedCalls(_)
StartedCalls(P) ==
  IF P = {} THEN 0
  ELSE LET p == CHOOSE q \in P : TRUE
       IN calls[p].started + StartedCalls(P \ {p})

\* modify_registry(the_agent_network_hocon_str, the_agent_network_name) is
\* called; manifest_at_call records the manifest the call found, for the
\* properties.
ModifyRegistry(p, the_agent_network_hocon_str, the_agent_network_name) ==
  /\ calls[p].pc = "idle"
  /\ calls' = [calls EXCEPT ![p] =
       [@ EXCEPT !.pc = "open_document",
                 !.the_agent_network_name = the_agent_network_name,
                 !.the_agent_network_hocon_str = the_agent_network_hocon_str,
                 !.manifest_content = <<>>,
                 !.started = @ + 1,
                 !.manifest_at_call = manifest]]
  /\ UNCHANGED <<invoke_vars, render_vars, storage_vars>>

\* The registries directory after content is put in the file at file_path.
file_written(file_path, content) ==
  IF file_path = manifest_path
  THEN /\ manifest' = text_of(content)
       /\ documents' = documents
  ELSE /\ documents' = documents_written(documents, file_path, content)
       /\ manifest' = manifest

\* aiofiles.open(file_path, "w")
OpenDocument(p) ==
  /\ calls[p].pc = "open_document"
  /\ file_written(file_path_of(calls[p].the_agent_network_name), EmptyFile)
  /\ calls' = [calls EXCEPT ![p].pc = "write_document"]
  /\ UNCHANGED <<invoke_vars, render_vars>>

\* file.write(the_agent_network_hocon_str) and the close of the file
WriteDocumentBody(p) ==
  /\ calls[p].pc = "write_document"
  /\ file_written(file_path_of(calls[p].the_agent_network_name),
                  calls[p].the_agent_network_hocon_str)
  /\ calls' = [calls EXCEPT ![p].pc = "read_manifest"]
  /\ UNCHANGED <<invoke_vars, render_vars>>

inserts_entry_unchecked(manifest_content, the_agent_network_name) ==
  rfind(manifest_content, "}") # 0

\* Whether modify_registry goes on to write the manifest.
inserts_entry(manifest_content, the_agent_network_name) ==
  /\ rfind(manifest_content, "}") # 0
  /\ manifest_entry(the_agent_network_name) \notin Range(manifest_content)

\* The read of the manifest; the call ends here when there is no closing
\* brace or the entry is there.
ReadManifestContent(p) ==
  /\ calls[p].pc = "read_manifest"
  /\ calls' = [calls EXCEPT ![p] =
       IF inserts_entry(manifest, @.the_agent_network_name)
       THEN [@ EXCEPT !.pc = "open_manifest", !.manifest_content = manifest]
       ELSE [@ EXCEPT !.pc = "idle", !.manifest_content = manifest,
                      !.completed = @ \cup {calls[p].the_agent_network_name}]]
  /\ UNCHANGED <<invoke_vars, render_vars, storage_vars>>

\* aiofiles.open(manifest_path, "w")
OpenManifest(p) ==
  /\ calls[p].pc = "open_manifest"
  /\ manifest' = <<>>
  /\ calls' = [calls EXCEPT ![p].pc = "write_manifest"]
  /\ UNCHANGED <<invoke_vars, render_vars, documents>>

\* file.write(updated_content) and the close of the file
WriteManifestBody(p) ==
  /\ calls[p].pc = "write_manifest"
  /\ manifest' = updated_content(calls[p].manifest_content,
                                  calls[p].the_agent_network_name)
  /\ calls' = [calls EXCEPT ![p] =
       [@ EXCEPT !.pc = "idle",
                 !.completed = @ \cup {calls[p].the_agent_network_name}]]
  /\ UNCHANGED <<invoke_vars, render_vars, documents>>

\* The steps of a call that has started.
ModifyRegistrySteps(p) ==
  \/ OpenDocument(p)
  \/ WriteDocumentBody(p)
  \/ ReadManifestContent(p)
  \/ OpenManifest(p)
  \/ WriteManifestBody(p)

(***************************************************************************)
(* The editor tools: CreateNetwork, AddAgent, SetAgentInstructions         *)
(***************************************************************************)
\* The agent name that is the empty string; the other names are numbers.
EmptyName == 0 - 1

EmptyConfig == Config(<<>>, <<>>)

\* d[key] = value: a new key goes last, a key of d keeps its place.
setitem(d, key, value) ==
  [keys |-> IF key \in Range(d.keys) THEN d.keys ELSE Append(d.keys, key),
   val |-> [k \in DOMAIN d.val \cup {key} |-> IF k = key THEN value ELSE d.val[k]]]

\* sly_data[key] = value
sly_data_set(sly, key, value) ==
  [k \in DOMAIN sly \cup {key} |-> IF k = key THEN value ELSE sly[k]]

\* The value a tool returns when it succeeds: the network definition.
Returned(network_def) == [prefix |-> "", network_def |-> network_def]

\* for agent_name in agent_names: sly_data[...][agent_name] = {}
RECURSIVE create_network_loop(_, _, _)
create_network_loop(network_def, agent_names, i) ==
  IF i > Len(agent_names) THEN network_def
  ELSE create_network_loop(setitem(network_def, agent_names[i], EmptyConfig),
                           agent_names, i + 1)

create_network_checks_first(args, sly) ==
  LET agent_names == Get(args, "agent_names", <<>>)
      network_def == create_network_loop(EmptyDict, agent_names, 1)
  IN IF ~Truthy(agent_names)
     THEN [sly_data |-> sly, ret |-> Error("No agent_names provided.")]
     ELSE [sly_data |-> sly_data_set(sly, AGENT_NETWORK_DEFINITION, network_def),
           ret |-> Returned(network_def)]

\* CreateNetwork.invoke: sly_data and the return value when it ends.
create_network(args, sly) ==
  LET reset == sly_data_set(sly, AGENT_NETWORK_DEFINITION, EmptyDict)
      agent_names == Get(args, "agent_names", <<>>)
      network_def == create_network_loop(reset[AGENT_NETWORK_DEFINITION],
                                         agent_names, 1)
  IN IF ~Truthy(agent_names)
     THEN [sly_data |-> reset, ret |-> Error("No agent_names provided.")]
     ELSE [sly_data |-> sly_data_set(reset, AGENT_NETWORK_DEFINITION, network_def),
           ret |-> Returned(network_def)]

add_agent_keeps_existing(args, sly) ==
  LET stored == Get(sly, AGENT_NETWORK_DEFINITION, EmptyDict)
      the_agent_name == Get(args, "agent_name", EmptyName)
      network_def == setitem(stored, the_agent_name,
                             Get(stored.val, the_agent_name, EmptyConfig))
  IN IF the_agent_name = EmptyName
     THEN [sly_data |-> sly, ret |-> Error("No agent_name provided.")]
     ELSE [sly_data |-> sly_data_set(sly, AGENT_NETWORK_DEFINITION, network_def),
           ret |-> Returned(network_def)]

\* AddAgent.invoke: sly_data and the return value when it ends.
add_agent(args, sly) ==
  LET stored == Get(sly, AGENT_NETWORK_DEFINITION, EmptyDict)
      the_agent_name == Get(args, "agent_name", EmptyName)
      network_def == setitem(IF stored.keys = <<>> THEN EmptyDict ELSE stored,
                             the_agent_name, EmptyConfig)
  IN IF the_agent_name = EmptyName
     THEN [sly_data |-> sly, ret |-> Error("No agent_name provided.")]
     ELSE [sly_data |-> sly_data_set(sly, AGENT_NETWORK_DEFINITION, network_def),
           ret |-> Returned(network_def)]

\* SetAgentInstructions.invoke: sly_data and the return value when it ends.
set_agent_instructions(args, sly) ==
  LET network_def == Get(sly, AGENT_NETWORK_DEFINITION, EmptyDict)
      the_agent_name == Get(args, "agent_name", EmptyName)
      new_instructions == Get(args, "new_instructions", "")
      config == network_def.val[the_agent_name]
      updated ==
        setitem(network_def, the_agent_name,
                [k \in DOMAIN config \cup {"instructions"} |->
                   IF k = "instructions" THEN new_instructions ELSE config[k]])
  IN IF network_def.keys = <<>>
     THEN [sly_data |-> sly, ret |-> Error("No network in sly data!")]
     ELSE IF the_agent_name = EmptyName
     THEN [sly_data |-> sly, ret |-> Error("No agent_name provided.")]
     ELSE IF the_agent_name \notin Range(network_def.keys)
     THEN [sly_data |-> sly,
           ret |-> [prefix |-> "Error: ", text |-> "Agent not found: ",
                    the_agent_name |-> the_agent_name]]
     ELSE IF ~Truthy(new_instructions)
     THEN [sly_data |-> sly, ret |-> Error("No agent instructions provided.")]
     ELSE [sly_data |-> sly_data_set(sly, AGENT_NETWORK_DEFINITION, updated),
           ret |-> Returned(updated)]

EditorNames == 1..MaxEditorAgents

\* Lists of at most n agent names, and the same with the first name again
\* at the end.
NameLists(n) ==
  KeyOrders(n) \cup {Append(l, l[1]) : l \in KeyOrders(n) \ {<<>>}}

\* agent_names: missing, an empty list or a list of names.
CreateNetworkArgs ==
  {[k \in {} |-> 0]} \cup {[agent_names |-> l] : l \in NameLists(MaxEditorAgents)}

\* agent_name: missing, the empty string or a name.
AddAgentArgs ==
  {[k \in {} |-> 0]} \cup {[agent_name |-> a] : a \in EditorNames \cup {EmptyName}}

\* agent_name as for AddAgent; new_instructions missing, empty or a text.
SetAgentInstructionsArgs ==
  {[k \in names \cup texts |-> IF k = "agent_name" THEN a ELSE t] :
     names \in SUBSET {"agent_name"}, texts \in SUBSET {"new_instructions"},
     a \in EditorNames \cup {EmptyName}, t \in {"", "text"}}

editor_unchanged ==
  /\ UNCHANGED <<validation, pc, locals, io_log, documents, manifest>>
  /\ UNCHANGED <<validator, hocon_strs, calls>>

CreateNetwork(args) ==
  /\ pc = "idle"
  /\ sly_data' = create_network(args, sly_data).sly_data
  /\ ret' = create_network(args, sly_data).ret
  /\ editor_unchanged

AddAgent(args) ==
  /\ pc = "idle"
  /\ sly_data' = add_agent(args, sly_data).sly_data
  /\ ret' = add_agent(args, sly_data).ret
  /\ editor_unchanged

SetAgentInstructions(args) ==
  /\ pc = "idle"
  /\ sly_data' = set_agent_instructions(args, sly_data).sly_data
  /\ ret' = set_agent_instructions(args, sly_data).ret
  /\ editor_unchanged

NextEditor ==
  \/ \E args \in CreateNetworkArgs : CreateNetwork(args)
  \/ \E args \in AddAgentArgs : AddAgent(args)
  \/ \E args \in SetAgentInstructionsArgs : SetAgentInstructions(args)

\* The editor tools on sly_data that holds a definition with down_chains
\* and instructions, or none.
InitEditor == FieldInputs(MaxStoredAgents, MaxStoredEdges) /\ InitRest

SpecEditor == InitEditor /\ [][NextEditor]_vars

\* A design session: the editor tools in any order from sly_data without a
\* definition, then the validator or CreateAgentNetworkHocon.
InitDesign == sly_data = NoSlyData /\ InitRest

NextDesign ==
  \/ NextEditor
  \/ Validate
  \/ \E args \in ArgsSet : AsyncInvoke(args)

SpecDesign == InitDesign /\ [][NextDesign]_vars

\* Interleaved calls, each with the document of a network of one agent.
NextRegistry ==
  \E p \in DOMAIN calls :
    \/ /\ StartedCalls(DOMAIN calls) < MaxConcurrentCalls
       /\ \E the_agent_network_name \in RegistryNames :
            ModifyRegistry(p, hocon_str_of(the_agent_network_name, 1),
                           the_agent_network_name)
    \/ ModifyRegistrySteps(p)

SpecRegistry == InitRegistry /\ [][NextRegistry]_vars

\* Calls one after the other, the document may change from call to call.
NextRegistrySequential ==
  \E p \in DOMAIN calls :
    \/ /\ StartedCalls(DOMAIN calls) < MaxRegistryCalls
       /\ \E the_agent_network_name \in RegistryNames :
            \E the_agent_network_hocon_str \in RegistryDocuments(the_agent_network_name) :
              ModifyRegistry(p, the_agent_network_hocon_str, the_agent_network_name)
    \/ ModifyRegistrySteps(p)

SpecRegistrySequential == InitRegistrySequential /\ [][NextRegistrySequential]_vars

(***************************************************************************)
(* Graph notions the properties are stated with                            *)
(***************************************************************************)
TheNetwork == sly_data[AGENT_NETWORK_DEFINITION]

Agents(network) == Range(network.keys)

\* A down_chains edge between two agents of the mapping.
HasEdge(network, a, b) ==
  /\ a \in Agents(network)
  /\ b \in Agents(network)
  /\ b \in Range(down_chains_of(network, a))

\* The agents reachable from those of S along edges, S included.
RECURSIVE ReachableSet(_, _)
ReachableSet(network, S) ==
  LET next == S \cup {b \in Agents(network) : \E a \in S : HasEdge(network, a, b)}
  IN IF next = S THEN S ELSE ReachableSet(network, next)

OnCycle(network, a) ==
  \E b \in Agents(network) :
    HasEdge(network, a, b) /\ a \in ReachableSet(network, {b})

\* Agents with down_chains that no other agent lists.
TopCandidates(network) ==
  {a \in Agents(network) :
     /\ Truthy(down_chains_of(network, a))
     /\ \A b \in Agents(network) \ {a} : a \notin Range(down_chains_of(network, b))}

\* The non-empty sequences of distinct agents that start with their
\* smallest agent: each simple cycle is written as exactly one of them.
CycleOrders ==
  LET n == IF MaxAgents > MaxCycleAgents THEN MaxAgents ELSE MaxCycleAgents
  IN {c \in UNION {[1..k -> 1..n] : k \in 1..n} :
        /\ \A i, j \in DOMAIN c : i # j => c[i] # c[j]
        /\ \A i \in DOMAIN c : c[1] <= c[i]}

\* The simple directed cycles of the down_chains edges.
SimpleCycles(network) ==
  {c \in CycleOrders :
     /\ Range(c) \subseteq Agents(network)
     /\ \A i \in 1..(Len(c) - 1) : HasEdge(network, c[i], c[i + 1])
     /\ HasEdge(network, c[Len(c)], c[1])}

Parents(network, b) == {a \in Agents(network) : HasEdge(network, a, b)}

IsRootedTree(network) ==
  /\ Cardinality(Agents(network)) >= 2
  /\ \E r \in Agents(network) :
       /\ Truthy(down_chains_of(network, r))
       /\ Parents(network, r) = {}
       /\ \A b \in Agents(network) \ {r} :
            /\ Cardinality(Parents(network, b)) = 1
            /\ b \in ReachableSet(network, {r})

IsAscending(s) == \A i, j \in DOMAIN s : i < j => s[i] < s[j]

Defects(errors, msg) == {i \in DOMAIN errors : errors[i].msg = msg}

Validated == pc = "validated"

ReturnedList == Validated /\ ~validation.raised

(***************************************************************************)
(* Properties                                                              *)
(***************************************************************************)
\* The three conditions, for a call whose arguments (or, after the call,
\* whose sly_data) carry the network name in d.
C1_Ok(d) ==
  /\ AGENT_NETWORK_DEFINITION \in DOMAIN sly_data
  /\ TheNetwork.keys # <<>>
  /\ validate_network_structure(TheNetwork)
       \o validate_network_keywords(TheNetwork, "instructions") = <<>>
  /\ Get(d, "agent_network_name", "") # ""

C1_Step ==
  \A args \in ArgsSet :
    AsyncInvoke(args) =>
      IF C1_Ok(args)
      THEN pc' = "write_document" /\ io_log' = <<"render">>
      ELSE /\ pc' = "returned"
           /\ ret'.prefix = "Error: "
           /\ io_log' = <<>>
           /\ documents' = documents
           /\ manifest' = manifest

C1_State ==
  /\ (io_log # <<>> \/ DOMAIN documents # {} \/ manifest # EmptyManifest) =>
       /\ C1_Ok(sly_data)
       /\ ret.prefix # "Error: "
  /\ ret.prefix = "Error: " => pc = "returned"

\* C1: async_invoke renders and writes only when the network definition is
\* present and non-empty, the combined defect list is empty and
\* agent_network_name is non-empty; in every other case it returns a string
\* starting with "Error:" and nothing was rendered, written or read.
C1_RendersOnlyWhenValid == [](C1_State) /\ [][C1_Step]_vars

C1_Witness ==
  /\ pc = "returned"
  /\ ret.prefix # "Error: "
  /\ io_log = <<"render", "write_document", "read_manifest", "write_manifest">>
  /\ "net1.hocon" \in DOMAIN documents

\* C2: when validate_network_structure returns an empty list the network
\* has exactly one top agent, no directed cycle among down_chains edges
\* between existing agents, and every agent is reachable from the top agent.
C2_EmptyDefectListMeansValid ==
  (ReturnedList /\ validation.structure_errors = <<>>) =>
    /\ Cardinality(TopCandidates(TheNetwork)) = 1
    /\ \A a \in Agents(TheNetwork) : ~OnCycle(TheNetwork, a)
    /\ Agents(TheNetwork) \subseteq ReachableSet(TheNetwork, TopCandidates(TheNetwork))

C2_Witness ==
  /\ ReturnedList
  /\ validation.structure_errors = <<>>
  /\ Len(TheNetwork.keys) = 3

\* C3: the set _find_cyclical_agents returns holds every agent that lies on
\* at least one directed cycle of down_chains edges.
C3_AllCycleAgentsFound ==
  ReturnedList =>
    \A a \in Agents(TheNetwork) :
      OnCycle(TheNetwork, a) => a \in validation.cyclical_agents

\* C4: with no top-agent candidate (in particular when no agent has a
\* non-empty down_chains) the defect list holds "No top agent found in
\* network"; with two or more it holds one defect naming all candidates in
\* sorted order; with exactly one it holds neither.
C4_RootCountDefect ==
  ReturnedList =>
    LET errors == validation.structure_errors
        n == Cardinality(validation.top_agents)
        none == Defects(errors, NoTopAgent.msg)
        multiple == Defects(errors, MultipleTopAgents(<<>>).msg)
    IN /\ n = 0 => Cardinality(none) = 1 /\ multiple = {}
       /\ n = 1 => none = {} /\ multiple = {}
       /\ n >= 2 =>
            /\ none = {}
            /\ Cardinality(multiple) = 1
            /\ \A i \in multiple :
                 /\ Range(errors[i].agents) = validation.top_agents
                 /\ IsAscending(errors[i].agents)
       /\ (\A a \in Agents(TheNetwork) : ~Truthy(down_chains_of(TheNetwork, a)))
            => n = 0

C4_Witness ==
  /\ ReturnedList
  /\ Cardinality(validation.top_agents) = 2
  /\ TheNetwork.keys[1] > TheNetwork.keys[2]

\* C5: _find_all_top_agents returns the agents that have a non-empty
\* down_chains and appear in the down_chains of no other agent; an agent
\* listing itself stays a candidate.
C5_TopAgentsIgnoreSelfReference ==
  ReturnedList => validation.top_agents = TopCandidates(TheNetwork)

\* C6: for a rooted tree of at least two agents validate_network_structure
\* returns an empty defect list, in every definition order.
C6_RootedTreeIsValid ==
  (Validated /\ IsRootedTree(TheNetwork)) =>
    ~validation.raised /\ validation.structure_errors = <<>>

C6_Witness ==
  /\ Validated
  /\ IsRootedTree(TheNetwork)
  /\ Len(TheNetwork.keys) = 3
  /\ TheNetwork.keys[3] \in validation.top_agents

\* C7: with exactly one top agent the agents reported unreachable are
\* exactly those that cannot be reached from it along down_chains edges
\* through existing agents, and they are reported in sorted order.
C7_UnreachableExact ==
  (ReturnedList /\ Cardinality(validation.top_agents) = 1) =>
    LET errors == validation.structure_errors
        expected == Agents(TheNetwork)
                      \ ReachableSet(TheNetwork, validation.top_agents)
        reported == Defects(errors, UnreachableAgents(<<>>).msg)
    IN /\ validation.unreachable_agents = expected
       /\ expected = {} => reported = {}
       /\ expected # {} =>
            /\ Cardinality(reported) = 1
            /\ \A i \in reported :
                 /\ Range(errors[i].agents) = expected
                 /\ Len(errors[i].agents) = Cardinality(expected)
                 /\ IsAscending(errors[i].agents)

C7_Witness ==
  /\ ReturnedList
  /\ Cardinality(validation.top_agents) = 1
  /\ Cardinality(validation.unreachable_agents) = 2

\* C8: when the down_chains edges hold exactly one simple directed cycle,
\* _find_cyclical_agents returns exactly the agents of that cycle, in every
\* definition order.
C8_SingleCycleExact ==
  ReturnedList =>
    LET cycles == SimpleCycles(TheNetwork)
    IN Cardinality(cycles) = 1 =>
         \A c \in cycles : validation.cyclical_agents = Range(c)

C8_Witness ==
  /\ ReturnedList
  /\ Cardinality(SimpleCycles(TheNetwork)) = 1
  /\ \E c \in SimpleCycles(TheNetwork) : Len(c) = 2
  /\ Cardinality(validation.cyclical_agents) = 2
  /\ Len(TheNetwork.keys) = 3

DefectMessages ==
  {NoTopAgent.msg, MultipleTopAgents(<<>>).msg, CyclicalDependencies(<<>>).msg,
   UnreachableAgents(<<>>).msg, HasNoKey(0, "instructions").msg}

IsDefectList(errors) ==
  \A i \in DOMAIN errors :
    errors[i].msg \in DefectMessages /\ Range(errors[i].agents) \subseteq Agents(TheNetwork)

\* C9: on a mapping whose down_chains are absent, empty or lists of names
\* (self-references, duplicates, cycles and undefined names included) and
\* whose instructions are absent or strings, both validations return a list
\* of defects and never raise.
C9_ValidationNeverRaises ==
  Validated =>
    /\ ~validation.raised
    /\ IsDefectList(validation.structure_errors)
    /\ IsDefectList(validation.keyword_errors)

C9_Witness ==
  /\ ReturnedList
  /\ \E a \in Agents(TheNetwork) :
       /\ "instructions" \notin DOMAIN TheNetwork.val[a]
       /\ \E b \in Range(down_chains_of(TheNetwork, a)) : b \notin Agents(TheNetwork)
  /\ validation.structure_errors = <<>>

MissingInstructions(network) ==
  {a \in Agents(network) :
     \/ "instructions" \notin DOMAIN network.val[a]
     \/ network.val[a]["instructions"] = ""}

\* C10: validate_network_keywords("instructions") returns exactly one defect
\* for each agent whose instructions are absent or empty, in definition
\* order, and none for an agent with non-empty instructions.
C10_KeywordDefects ==
  Validated =>
    LET errors == validation.keyword_errors
    IN /\ Len(errors) = Cardinality(MissingInstructions(TheNetwork))
       /\ \A i \in DOMAIN errors :
            /\ errors[i].msg = "has no key: instructions"
            /\ Len(errors[i].agents) = 1
            /\ errors[i].agents[1] \in MissingInstructions(TheNetwork)
       /\ \A i, j \in DOMAIN errors :
            i < j => Index(TheNetwork.keys, errors[i].agents[1])
                       < Index(TheNetwork.keys, errors[j].agents[1])

C10_Witness ==
  /\ Validated
  /\ TheNetwork.keys = <<2, 1>>
  /\ Len(validation.keyword_errors) = 2
  /\ "instructions" \notin DOMAIN TheNetwork.val[1]
  /\ "instructions" \in DOMAIN TheNetwork.val[2]

\* The first string get_agent_network_hocon returned for the validator.
FirstRender == hocon_strs[1]

Blocks == FirstRender.hocon.blocks

\* C11: for a validated network get_agent_network_hocon emits one block per
\* agent, the top agent's block first and the blocks of the other agents
\* after it in the order of the definition.
C11_TopFirstRestInOrder ==
  Len(hocon_strs) >= 1 =>
    /\ ~FirstRender.raised
    /\ Len(Blocks) = Len(TheNetwork.keys)
    /\ {Blocks[i].name : i \in DOMAIN Blocks} = Agents(TheNetwork)
    /\ Blocks[1].name \in TopCandidates(TheNetwork)
    /\ \A i, j \in 2..Len(Blocks) :
         i < j => Index(TheNetwork.keys, Blocks[i].name)
                    < Index(TheNetwork.keys, Blocks[j].name)

C11_Witness ==
  /\ Len(hocon_strs) >= 1
  /\ Len(TheNetwork.keys) = 3
  /\ TheNetwork.keys[3] \in TopCandidates(TheNetwork)
  /\ Blocks[2].name = TheNetwork.keys[1]

\* C12: for a validated network every agent is rendered with one template:
\* the top-agent template exactly for the unique top agent, the regular
\* template exactly for another agent with non-empty down_chains, the leaf
\* template exactly for an agent whose down_chains is absent or empty; the
\* leaf block has no tools field.
C12_OneTemplatePerRole ==
  Len(hocon_strs) >= 1 =>
    /\ ~FirstRender.raised
    /\ Cardinality(TopCandidates(TheNetwork)) = 1
    /\ \A i \in DOMAIN Blocks :
         LET block == Blocks[i]
             is_top == block.name \in TopCandidates(TheNetwork)
             has_down_chains == Truthy(down_chains_of(TheNetwork, block.name))
         IN /\ block.template \in {"TOP_AGENT_TEMPLATE", "REGULAR_AGENT_TEMPLATE",
                                   "LEAF_NODE_AGENT_TEMPLATE"}
            /\ block.template = "TOP_AGENT_TEMPLATE" <=> is_top
            /\ block.template = "REGULAR_AGENT_TEMPLATE" <=> (~is_top /\ has_down_chains)
            /\ block.template = "LEAF_NODE_AGENT_TEMPLATE" <=> ~has_down_chains
            /\ block.template = "LEAF_NODE_AGENT_TEMPLATE" => "tools" \notin DOMAIN block
            /\ block.template # "LEAF_NODE_AGENT_TEMPLATE" => "tools" \in DOMAIN block
            /\ block.instructions = TheNetwork.val[block.name]["instructions"]

C12_Witness ==
  /\ Len(hocon_strs) >= 1
  /\ Len(Blocks) = 3
  /\ Blocks[2].template = "LEAF_NODE_AGENT_TEMPLATE"
  /\ "down_chains" \notin DOMAIN TheNetwork.val[Blocks[2].name]
  /\ Blocks[3].template = "REGULAR_AGENT_TEMPLATE"

\* C13: the tools field of an agent with non-empty down_chains is its
\* down_chains names in declared order, duplicates kept, each quoted, with
\* one comma between two names and none after the last.
C13_ToolsQuotedCommaJoined ==
  Len(hocon_strs) >= 1 =>
    \A i \in DOMAIN Blocks :
      LET down_chains == down_chains_of(TheNetwork, Blocks[i].name)
      IN Truthy(down_chains) =>
           LET tools == Blocks[i].tools
           IN /\ Len(tools) = 2 * Len(down_chains) - 1
              /\ \A k \in DOMAIN down_chains : tools[2 * k - 1] = Quoted(down_chains[k])
              /\ \A k \in 1..(Len(down_chains) - 1) : tools[2 * k] = Comma

C13_Witness ==
  /\ Len(hocon_strs) >= 1
  /\ \E i \in DOMAIN Blocks :
       /\ "tools" \in DOMAIN Blocks[i]
       /\ \E b, c \in Agents(TheNetwork) :
            b # c /\ Blocks[i].tools = <<Quoted(b), Comma, Quoted(c)>>

\* C14: get_agent_network_hocon has no side effect: after the call the
\* validator's network has the keys, the key order and the values it had
\* before, and no document and no manifest was written.
C14_RenderLeavesValidatorNetwork ==
  Len(hocon_strs) = 1 =>
    /\ validator.network.keys = TheNetwork.keys
    /\ validator.network.val = TheNetwork.val
    /\ DOMAIN documents = {}
    /\ manifest = EmptyManifest

\* C15: two successive calls of get_agent_network_hocon with the same
\* validator and the same network name both succeed and return the same
\* string.
C15_RenderTwiceSameString ==
  Len(hocon_strs) = 2 =>
    /\ ~hocon_strs[1].raised
    /\ ~hocon_strs[2].raised
    /\ hocon_strs[1].hocon = hocon_strs[2].hocon

\* C16: on success async_invoke returns the rendered document, the string
\* get_agent_network_hocon produced and modify_registry wrote.
C16_ReturnsRenderedDocument ==
  (pc = "returned" /\ locals.active) =>
    /\ ret = locals.the_agent_network_hocon_str
    /\ ret = documents[locals.the_agent_network_name \o ".hocon"]

Count(s, x) == Cardinality({i \in DOMAIN s : s[i] = x})

HasClosingBrace(content) == "}" \in Range(content)

EntryOf(name) == name \o ".hocon"

AllIdle == \A p \in DOMAIN calls : calls[p].pc = "idle"

\* The caller's last call of modify_registry has ended.
CallEnded(p) == calls[p].pc = "idle" /\ calls[p].started >= 1

\* C17: sequential modify_registry calls with one name, on a manifest with
\* a closing brace and no entry for the name, leave exactly one entry for
\* the name: the first call inserts it, and a call that finds the entry
\* leaves the manifest content as it found it.
C17_RegistrationIdempotent ==
  \A p \in DOMAIN calls :
    CallEnded(p) =>
      LET name == calls[p].the_agent_network_name
          before == calls[p].manifest_at_call
      IN /\ (HasClosingBrace(before) /\ Count(before, EntryOf(name)) = 0) =>
              Count(manifest, EntryOf(name)) = 1
         /\ Count(before, EntryOf(name)) = 1 => manifest = before

\* The file of the network's document is there.
DocumentExists(name) ==
  file_path_of(name) = manifest_path \/ file_path_of(name) \in DOMAIN documents

C18_State ==
  \A p \in DOMAIN calls :
    /\ calls[p].pc \in {"read_manifest", "open_manifest", "write_manifest"} =>
         DocumentExists(calls[p].the_agent_network_name)
    /\ \A name \in calls[p].completed : DocumentExists(name)

C18_Step ==
  \A p \in DOMAIN calls :
    /\ (calls'[p].pc = "read_manifest" /\ calls[p].pc # "read_manifest") =>
         /\ calls[p].pc = "write_document"
         /\ file_path_of(calls[p].the_agent_network_name) # manifest_path =>
              documents'[file_path_of(calls[p].the_agent_network_name)]
                = calls[p].the_agent_network_hocon_str
    /\ (calls'[p].pc \in {"open_manifest", "write_manifest"}
          /\ calls'[p].pc # calls[p].pc) =>
         /\ calls[p].pc \in {"read_manifest", "open_manifest"}
         /\ documents' = documents

\* C18: in every call of modify_registry the document is written before the
\* manifest is read or written, so in every state, a call stopped between
\* two steps included, a manifest entry the call inserted has its document.
C18_DocumentBeforeManifest == [](C18_State) /\ [][C18_Step]_vars

C18_Witness ==
  /\ \E p \in DOMAIN calls :
       /\ calls[p].pc = "write_manifest"
       /\ calls[p].the_agent_network_name = "net2"
       /\ manifest = <<>>
       /\ documents["net2.hocon"] = calls[p].the_agent_network_hocon_str
  /\ DOMAIN documents = {"net2.hocon"}

\* Two callers made one call each, for different names, and both ended.
TwoCallsEnded(p, q) ==
  /\ p # q
  /\ AllIdle
  /\ calls[p].started = 1 /\ calls[p].completed = {"net1"}
  /\ calls[q].started = 1 /\ calls[q].completed = {"net2"}
  /\ \A r \in DOMAIN calls \ {p, q} : calls[r].started = 0

\* C19: two concurrent modify_registry calls for different names can both
\* end with the manifest holding the entry of one of them only; an entry is
\* lost only to a call that read the manifest before the entry was in it,
\* and the entry of the last writer is never lost.
C19_LostUpdateOnlyByStaleRead ==
  \A p, q \in DOMAIN calls :
    (TwoCallsEnded(p, q) /\ HasClosingBrace(manifest)) =>
      /\ EntryOf("net1") \in Range(manifest) \/ EntryOf("net2") \in Range(manifest)
      /\ EntryOf("net1") \notin Range(manifest) =>
           EntryOf("net1") \notin Range(calls[q].manifest_content)
      /\ EntryOf("net2") \notin Range(manifest) =>
           EntryOf("net2") \notin Range(calls[p].manifest_content)

C19_Witness ==
  \E p, q \in DOMAIN calls :
    /\ TwoCallsEnded(p, q)
    /\ calls[p].manifest_content = <<"{", "\n", "old.hocon", "}">>
    /\ calls[q].manifest_content = <<"{", "\n", "old.hocon", "}">>
    /\ manifest = <<"{", "\n", "old.hocon", "\n", "net2.hocon", "}">>

\* The text with the entry of the name put before its last closing brace.
InsertedBeforeLastBrace(old, new, name) ==
  \E i \in DOMAIN old :
    /\ old[i] = "}"
    /\ \A j \in (i + 1)..Len(old) : old[j] # "}"
    /\ Len(new) = Len(old) + 2
    /\ \A j \in 1..(i - 1) : new[j] = old[j]
    /\ new[i] = "\n"
    /\ new[i + 1] = EntryOf(name)
    /\ \A j \in i..Len(old) : new[j + 2] = old[j]

\* C20: on a manifest with a closing brace and no entry for the name, a
\* sequential modify_registry leaves the old text up to its last closing
\* brace, the new entry, and the old text from that brace on.
C20_InsertBeforeLastBrace ==
  \A p \in DOMAIN calls :
    CallEnded(p) =>
      LET name == calls[p].the_agent_network_name
          before == calls[p].manifest_at_call
      IN (HasClosingBrace(before) /\ Count(before, EntryOf(name)) = 0) =>
           InsertedBeforeLastBrace(before, manifest, name)

\* C21: when the number of top agents is zero or at least two, the defect
\* list holds no "Unreachable agents" defect, whichever agents cannot be
\* reached: reachability is evaluated with exactly one top agent only.
C21_NoUnreachableDefectWithoutSingleTop ==
  (ReturnedList /\ Cardinality(validation.top_agents) # 1) =>
    /\ Defects(validation.structure_errors, UnreachableAgents(<<>>).msg) = {}
    /\ validation.unreachable_agents = {}
    /\ validation.visited = <<>>

C21_Witness ==
  /\ ReturnedList
  /\ Cardinality(validation.top_agents) = 2
  /\ Len(TheNetwork.keys) = 3
  /\ \E t \in validation.top_agents :
       Agents(TheNetwork) \ ReachableSet(TheNetwork, {t}) # {}

\* The names that are no key of the mapping.
DanglingNames(network) == (0..(MaxAgents + 1)) \ Agents(network)

\* The mapping with one more name at position pos of the down_chains of a.
WithReference(network, a, name, pos) ==
  LET config == network.val[a]
      chains == down_chains_of(network, a)
      longer == SubSeq(chains, 1, pos - 1) \o <<name>>
                  \o SubSeq(chains, pos, Len(chains))
  IN [keys |-> network.keys,
      val |-> [b \in DOMAIN network.val |->
                 IF b = a
                 THEN [k \in DOMAIN config \cup {"down_chains"} |->
                         IF k = "down_chains" THEN longer ELSE config[k]]
                 ELSE network.val[b]]]

\* C22: a network whose structural defect list is empty keeps an empty
\* defect list when a name that is no key of the mapping is added, at any
\* position, to the down_chains of any of its agents.
C22_DanglingReferenceIgnored ==
  (ReturnedList /\ validation.structure_errors = <<>>) =>
    \A a \in Agents(TheNetwork) :
      \A name \in DanglingNames(TheNetwork) :
        \A pos \in 1..(Len(down_chains_of(TheNetwork, a)) + 1) :
          LET run == validate_network_structure_run(
                       WithReference(TheNetwork, a, name, pos))
          IN ~run.raised /\ run.errors = <<>>

C22_Witness ==
  /\ ReturnedList
  /\ validation.structure_errors = <<>>
  /\ Len(TheNetwork.keys) = 3
  /\ \E a \in Agents(TheNetwork) : down_chains_of(TheNetwork, a) = <<>>
  /\ \A a \in Agents(TheNetwork) :
       Range(down_chains_of(TheNetwork, a)) \subseteq Agents(TheNetwork)

\* The agents of path from the first occurrence of agent to the tail.
PathFrom(path, agent) ==
  {path[i] : i \in {j \in DOMAIN path : \E k \in 1..j : path[k] = agent}}

IsPath(network, path) ==
  \A i \in 1..(Len(path) - 1) : HasEdge(network, path[i], path[i + 1])

\* C23: every agent _find_cyclical_agents returns lies on a directed cycle
\* of down_chains edges; each time the traversal meets an agent that is
\* being processed, that agent is on the current path, the path closes a
\* cycle through it, and the agents added are exactly those of the path
\* from that agent's position to the tail.
C23_CyclicalAgentsOnCycle ==
  ReturnedList =>
    LET back_edges == validation.cyclical.back_edges
    IN /\ \A a \in validation.cyclical_agents : OnCycle(TheNetwork, a)
       /\ \A i \in DOMAIN back_edges :
            LET e == back_edges[i]
            IN /\ e.agent \in Range(e.path)
               /\ IsPath(TheNetwork, e.path)
               /\ HasEdge(TheNetwork, e.path[Len(e.path)], e.agent)
       /\ validation.cyclical_agents =
            UNION {PathFrom(back_edges[i].path, back_edges[i].agent) :
                     i \in DOMAIN back_edges}

C23_Witness ==
  /\ ReturnedList
  /\ \E i \in DOMAIN validation.cyclical.back_edges :
       LET e == validation.cyclical.back_edges[i]
       IN Len(e.path) = 3 /\ e.path[1] # e.agent
  /\ Cardinality(validation.cyclical_agents) = 2

GotTopAgent == pc = "top_agent"

\* C24: get_top_agent raises exactly when validate_network_structure
\* reports a root-count defect ("No top agent found in network" or
\* "Multiple top agents found"); otherwise it returns the one agent that
\* has a non-empty down_chains and is in the down_chains of no agent.
C24_TopAgentOrRaise ==
  (GotTopAgent /\ ~validation.raised) =>
    LET errors == validation.structure_errors
        root_count_defect ==
          Defects(errors, NoTopAgent.msg)
            \cup Defects(errors, MultipleTopAgents(<<>>).msg) # {}
        unlisted == {a \in Agents(TheNetwork) :
                       /\ Truthy(down_chains_of(TheNetwork, a))
                       /\ \A b \in Agents(TheNetwork) :
                            a \notin Range(down_chains_of(TheNetwork, b))}
    IN /\ ret.raised <=> root_count_defect
       /\ ~ret.raised => unlisted = {ret.value}

C24_Witness ==
  /\ GotTopAgent
  /\ ret.raised
  /\ Defects(validation.structure_errors, MultipleTopAgents(<<>>).msg) # {}

C24_WitnessReturned ==
  /\ GotTopAgent
  /\ ~ret.raised
  /\ Len(TheNetwork.keys) = 3
  /\ validation.structure_errors # <<>>

IsDuplicateFree(s) == \A i, j \in DOMAIN s : i # j => s[i] # s[j]

\* C26: both traversals end on every network; the cycle traversal marks
\* each agent as being processed exactly once and leaves every agent fully
\* processed with an empty path; the reachability traversal adds an agent
\* to visited at most once.
C26_TraversalsVisitOnce ==
  ReturnedList =>
    LET d == validation.cyclical
    IN /\ IsDuplicateFree(d.entered)
       /\ Range(d.entered) = Agents(TheNetwork)
       /\ \A a \in Agents(TheNetwork) : d.state[a] = 2
       /\ d.path = <<>>
       /\ IsDuplicateFree(validation.visited)
       /\ Range(validation.visited) \subseteq Agents(TheNetwork)

C26_Witness ==
  /\ ReturnedList
  /\ Len(validation.cyclical.entered) = 3
  /\ Len(validation.visited) = 3
  /\ validation.cyclical_agents # {}
  /\ \E a \in Agents(TheNetwork) : Cardinality(Parents(TheNetwork, a)) >= 2

\* C25: in every state of every interleaving of concurrent modify_registry
\* calls, the manifest holds the entry of a network name at most once; in
\* particular two calls with the same name, started on a manifest with a
\* closing brace and no entry for the name, never leave a duplicate entry.
C25_NoDuplicateEntry ==
  \A name \in RegistryNames : Count(manifest, EntryOf(name)) <= 1

C25_Witness ==
  \E p, q \in DOMAIN calls :
    /\ p # q
    /\ AllIdle
    /\ calls[p].started = 1 /\ calls[p].completed = {"net2"}
    /\ calls[q].started = 1 /\ calls[q].completed = {"net2"}
    /\ calls[p].manifest_content = <<"{", "\n", "old.hocon", "}">>
    /\ calls[q].manifest_content = <<"{", "\n", "old.hocon", "}">>
    /\ manifest = <<"{", "\n", "old.hocon", "\n", "net2.hocon", "}">>

\* C27: a modify_registry call that finds a manifest without a closing
\* brace ends normally with the document of the network written and the
\* manifest as the call found it.
C27_NoBraceLeavesManifest ==
  \A p \in DOMAIN calls :
    (CallEnded(p) /\ ~HasClosingBrace(calls[p].manifest_at_call)) =>
      LET name == calls[p].the_agent_network_name
      IN /\ manifest = calls[p].manifest_at_call
         /\ file_path_of(name) \in DOMAIN documents
         /\ documents[file_path_of(name)] = calls[p].the_agent_network_hocon_str
         /\ name \in calls[p].completed

\* The same for the names whose document is a file of its own.
C27_OrdinaryNames ==
  \A p \in DOMAIN calls :
    (/\ CallEnded(p)
     /\ ~HasClosingBrace(calls[p].manifest_at_call)
     /\ file_path_of(calls[p].the_agent_network_name) # manifest_path) =>
      LET name == calls[p].the_agent_network_name
      IN /\ manifest = calls[p].manifest_at_call
         /\ file_path_of(name) \in DOMAIN documents
         /\ documents[file_path_of(name)] = calls[p].the_agent_network_hocon_str
         /\ name \in calls[p].completed

\* The entries of sly_data other than the network definition.
OtherSlyData(sly) ==
  [k \in DOMAIN sly \ {AGENT_NETWORK_DEFINITION} |-> sly[k]]

C28_Step ==
  \A args \in CreateNetworkArgs :
    CreateNetwork(args) =>
      LET agent_names == Get(args, "agent_names", <<>>)
      IN /\ AGENT_NETWORK_DEFINITION \in DOMAIN sly_data'
         /\ OtherSlyData(sly_data') = OtherSlyData(sly_data)
         /\ LET network_def == sly_data'[AGENT_NETWORK_DEFINITION]
            IN IF agent_names = <<>>
               THEN /\ ret' = Error("No agent_names provided.")
                    /\ network_def = EmptyDict
               ELSE /\ ret' = Returned(network_def)
                    /\ Range(network_def.keys) = Range(agent_names)
                    /\ DOMAIN network_def.val = Range(agent_names)
                    /\ IsDuplicateFree(network_def.keys)
                    /\ \A a \in Range(agent_names) :
                         network_def.val[a] = EmptyConfig

\* C28: CreateNetwork.invoke leaves an empty definition and returns
\* "Error: No agent_names provided." when agent_names is missing or empty,
\* whatever definition was stored before; otherwise the definition holds
\* exactly the given names, each with an empty configuration.
C28_CreateNetworkResetsFirst == [][C28_Step]_vars

C28_Witness ==
  /\ ret = Error("No agent_names provided.")
  /\ AGENT_NETWORK_DEFINITION \in DOMAIN sly_data
  /\ TheNetwork = EmptyDict

C28_WitnessCreated ==
  /\ AGENT_NETWORK_DEFINITION \in DOMAIN sly_data
  /\ ret = Returned(TheNetwork)
  /\ TheNetwork.keys = <<2, 1>>

C29_Step ==
  \A args \in AddAgentArgs :
    AddAgent(args) =>
      LET the_agent_name == Get(args, "agent_name", EmptyName)
          old == Get(sly_data, AGENT_NETWORK_DEFINITION, EmptyDict)
      IN IF the_agent_name = EmptyName
         THEN /\ ret' = Error("No agent_name provided.")
              /\ sly_data' = sly_data
         ELSE /\ AGENT_NETWORK_DEFINITION \in DOMAIN sly_data'
              /\ OtherSlyData(sly_data') = OtherSlyData(sly_data)
              /\ LET new == sly_data'[AGENT_NETWORK_DEFINITION]
                 IN /\ ret' = Returned(new)
                    /\ new.val[the_agent_name] = EmptyConfig
                    /\ DOMAIN new.val = Range(old.keys) \cup {the_agent_name}
                    /\ Range(new.keys) = DOMAIN new.val
                    /\ SubSeq(new.keys, 1, Len(old.keys)) = old.keys
                    /\ \A b \in Range(old.keys) \ {the_agent_name} :
                         new.val[b] = old.val[b]

\* C29: AddAgent.invoke with a non-empty agent_name leaves that name with
\* an empty configuration, whatever instructions and down_chains it had,
\* and every other entry as it was; with an empty or missing agent_name it
\* returns an error and sly_data is as before.
C29_AddAgentFrame == [][C29_Step]_vars

C29_Witness ==
  /\ AGENT_NETWORK_DEFINITION \in DOMAIN sly_data
  /\ ret = Returned(TheNetwork)
  /\ TheNetwork.keys = <<1, 2>>
  /\ Truthy(down_chains_of(TheNetwork, 1))
  /\ Get(TheNetwork.val[1], "instructions", "") = "text"
  /\ TheNetwork.val[2] = EmptyConfig

\* C30: in a design session that starts without a definition, no agent of
\* the definition ever has a down_chains entry; the validator reports "No
\* top agent found in network" for the definition, and
\* CreateAgentNetworkHocon returns an error without rendering or writing.
C30_EditorsNeverMakeTopAgent ==
  /\ AGENT_NETWORK_DEFINITION \in DOMAIN sly_data =>
       \A a \in Agents(TheNetwork) : "down_chains" \notin DOMAIN TheNetwork.val[a]
  /\ Validated =>
       /\ ~validation.raised
       /\ Defects(validation.structure_errors, NoTopAgent.msg) # {}
  /\ pc \in {"idle", "validated", "returned"}
  /\ pc = "returned" => ret.prefix = "Error: "
  /\ io_log = <<>>
  /\ DOMAIN documents = {}
  /\ manifest = EmptyManifest

C30_Witness ==
  /\ pc = "returned"
  /\ ret.prefix = "Error: "
  /\ ret.text = "error_list"
  /\ \E i \in DOMAIN ret.error_list : ret.error_list[i].msg = NoTopAgent.msg
  /\ Len(TheNetwork.keys) = 2
  /\ \A a \in Agents(TheNetwork) :
       Get(TheNetwork.val[a], "instructions", "") = "text"

====
